---- MODULE Spec2Model ----
(***************************************************************************)
(* Model of the data-import pipeline of referee-stats-fogis                *)
(* (src/referee_stats_fogis/core/importer.py, class DataImporter) over the *)
(* relational schema of src/referee_stats_fogis/data/models.py.            *)
(*                                                                         *)
(* One action is one call of import_from_json on a decoded JSON value.     *)
(* The store is the committed content of the database; the session's       *)
(* working copy lives only inside a call and is threaded through the       *)
(* operators as a record s = [db, base, ok]:                               *)
(*   db   - what queries of the session see (autoflush is on)              *)
(*   base - the committed store the transaction started from               *)
(*   ok   - FALSE once a flush has failed: the transaction is rolled back  *)
(*          and every later query, flush or commit raises until the        *)
(*          session is rolled back by its owner.                           *)
(* JSON values: ids are integers, NULL stands for an absent key or a JSON  *)
(* null; display names are strings, "" when absent; a list is a sequence.  *)
(***************************************************************************)
EXTENDS Integers, Sequences, FiniteSets, TLC

\* ------------------------------------------------------------------ bounds
\* At most MaxCalls files are taken up (a repeated import of the last file is free).
MaxCalls == 3
\* A JSON list holds at most MaxLen records.
MaxLen == 2

\* --------------------------------------------------------------- basic values
\* Python None, an absent key, SQL NULL.
NULL == -1

\* None in a string-typed column or value.
NONE == "None"

\* Python truthiness of an id read with dict.get: None and 0 are falsy.
Falsy(x) == x = NULL \/ x = 0

\* str(n) for the small ids of the model.
Str(n) == IF n = 0 THEN "0" ELSE IF n = 1 THEN "1" ELSE IF n = 2 THEN "2"
          ELSE IF n = 3 THEN "3" ELSE IF n = 4 THEN "4" ELSE "9"

MaxOf(S) == CHOOSE m \in S : \A x \in S : x <= m

\* The key an INTEGER PRIMARY KEY column gets when the row is inserted without one.
NextId(tbl) == IF tbl = {} THEN 1 ELSE MaxOf({x.id : x \in tbl}) + 1

\* Query.first(): the row with the lowest key among the matching ones.
First(S) == CHOOSE r \in S : \A q \in S : r.id <= q.id

Replace(tbl, old, new) == (tbl \ {old}) \cup {new}

\* ---------------------------------------------------------------- the store
EmptyStore ==
  [venues |-> {}, competition_categories |-> {}, competitions |-> {},
   clubs |-> {}, teams |-> {}, matches |-> {}, match_teams |-> {},
   persons |-> {}, referees |-> {}, referee_roles |-> {},
   referee_assignments |-> {}, result_types |-> {}, match_results |-> {},
   event_types |-> {}, match_participants |-> {}, match_events |-> {}]

\* A session on committed store st, at the start of a transaction.
Begin(st) == [db |-> st, base |-> st, ok |-> TRUE]

\* A flush that violates a constraint: the transaction is rolled back and the
\* session refuses further work.
FlushFails(s) == [db |-> s.base, base |-> s.base, ok |-> FALSE]

\* ------------------------------------------------------- display names
VenueName(v) == IF v = 1 THEN "Bollevi" ELSE IF v = 2 THEN "Bollevi Konstgras" ELSE ""
CompetitionName(v) == IF v = 1 THEN "Div 2" ELSE IF v = 2 THEN "Div 2 herr 2025" ELSE ""
CategoryName(v) == IF v = 1 THEN "Division 2" ELSE IF v = 2 THEN "Division 2, herrar" ELSE ""
\* Team names are sequences of words (split on " ").
TeamName(t, v) ==
  IF v = 0 THEN <<>>
  ELSE IF t = 1 THEN (IF v = 1 THEN <<"Hestrafors", "IF">> ELSE <<"HIF", "Hestrafors">>)
  ELSE (IF v = 1 THEN <<"Boljan">> ELSE <<"IF", "Boljan">>)
PersonName(v) == IF v = 1 THEN <<"Test", "Referee">> ELSE IF v = 2 THEN <<"Tess", "Ref", "Eree">> ELSE <<>>
RoleName(v) == IF v = 1 THEN "Huvuddomare" ELSE IF v = 2 THEN "Domare" ELSE "Unknown"

\* ------------------------------------------------ _get_or_create_venue
GetOrCreateVenue(s, r) ==
  LET venue_id == r.anlaggningid
      venue_name == VenueName(r.namn)
      found == {x \in s.db.venues : x.id = venue_id}
  IN IF Falsy(venue_id) \/ venue_name = "" THEN [s |-> s, v |-> NULL]
     ELSE IF found # {}
       THEN [s |-> [s EXCEPT !.db.venues =
                      Replace(@, First(found), [First(found) EXCEPT !.name = venue_name])],
             v |-> venue_id]
       ELSE [s |-> [s EXCEPT !.db.venues = @ \cup {[id |-> venue_id, name |-> venue_name]}],
             v |-> venue_id]

\* ------------------------------------------ _get_or_create_competition
GetOrCreateCompetition(s, r) ==
  LET competition_id == r.tavlingid
      competition_name == CompetitionName(r.namn)
      category_id == r.tavlingskategoriid
      category_name == CategoryName(r.namn)
      found == {x \in s.db.competitions : x.id = competition_id}
      hasCat == ~Falsy(category_id) /\ category_name # ""
      catFound == {x \in s.db.competition_categories : x.id = category_id}
      s1 == IF hasCat /\ catFound = {}
              THEN [s EXCEPT !.db.competition_categories =
                      @ \cup {[id |-> category_id, name |-> category_name]}]
              ELSE s
      cat == IF hasCat THEN category_id ELSE NULL
      row == [id |-> competition_id, name |-> competition_name, category_id |-> cat]
  IN IF Falsy(competition_id) \/ competition_name = "" THEN [s |-> s, v |-> NULL]
     ELSE IF found # {}
       THEN [s |-> [s1 EXCEPT !.db.competitions = Replace(@, First(found), row)],
             v |-> competition_id]
       ELSE [s |-> [s1 EXCEPT !.db.competitions = @ \cup {row}], v |-> competition_id]

\* ----------------------------------------------------- _get_or_create_team
GetOrCreateTeam(s, r, is_home) ==
  LET team_id == IF is_home THEN r.lag1lagid ELSE r.lag2lagid
      club_id == IF is_home THEN r.lag1foreningid ELSE r.lag2foreningid
      team_name == IF Falsy(team_id) THEN <<>> ELSE TeamName(team_id, r.namn)
      found == {x \in s.db.teams : x.id = team_id}
      clubFound == {x \in s.db.clubs : x.id = club_id}
      s1 == IF clubFound = {}
              THEN [s EXCEPT !.db.clubs = @ \cup {[id |-> club_id, name |-> team_name[1]]}]
              ELSE s
      row == [id |-> team_id, name |-> team_name, club_id |-> club_id,
              fogis_id |-> Str(team_id)]
  IN IF Falsy(team_id) \/ team_name = <<>> \/ Falsy(club_id) THEN [s |-> s, v |-> NULL]
     ELSE IF found # {}
       THEN [s |-> [s1 EXCEPT !.db.teams = Replace(@, First(found), row)], v |-> team_id]
       ELSE [s |-> [s1 EXCEPT !.db.teams = @ \cup {row}], v |-> team_id]

\* ------------------------------------------------------------ _parse_date
\* "ok": a YYYY-MM-DD string; "bad": any other string, also the "" of an absent
\* key (strptime raises ValueError, the current date is used); "null": a JSON null
\* (strptime raises TypeError, which _parse_date does not catch).
\* A variant without the `except ValueError` of line 630.
ParseDateUncaught(d) == d # "ok"

ParseDateRaises(d) == d = "null"
ParseDate(d) == IF d = "ok" THEN "2025-04-11" ELSE "now"

\* ---------------------------------------- _create_or_update_match_teams
\* A variant that inserts without looking for the row of (match, team).
UpsertMatchTeamInsertOnly(s, match_id, team, is_home) ==
  IF team = NULL THEN s
  ELSE [s EXCEPT !.db.match_teams =
          @ \cup {[id |-> NextId(s.db.match_teams), match_id |-> match_id,
                   team_id |-> team, is_home_team |-> is_home]}]

UpsertMatchTeam(s, match_id, team, is_home) ==
  LET found == {x \in s.db.match_teams : x.match_id = match_id /\ x.team_id = team}
  IN IF team = NULL THEN s
     ELSE IF found # {}
       THEN [s EXCEPT !.db.match_teams =
               Replace(@, First(found), [First(found) EXCEPT !.is_home_team = is_home])]
       ELSE [s EXCEPT !.db.match_teams =
               @ \cup {[id |-> NextId(s.db.match_teams), match_id |-> match_id,
                        team_id |-> team, is_home_team |-> is_home]}]

CreateOrUpdateMatchTeams(s, match_id, home_team, away_team) ==
  UpsertMatchTeam(UpsertMatchTeam(s, match_id, home_team, TRUE), match_id, away_team, FALSE)

\* ------------------------------------------------- _get_or_create_person
\* Called with personid present; `data.namn` selects the display name.
SplitFirst(name) == IF name = <<>> THEN "" ELSE name[1]
SplitLast(name) == IF Len(name) > 1 THEN SubSeq(name, 2, Len(name)) ELSE <<>>

GetOrCreatePerson(s, data) ==
  LET person_id == data.personid
      full_name == PersonName(data.namn)
      found == {x \in s.db.persons : x.id = person_id}
      row == [id |-> person_id, first_name |-> SplitFirst(full_name),
              last_name |-> SplitLast(full_name), fogis_id |-> NONE]
  IN IF found # {}
       THEN [s |-> [s EXCEPT !.db.persons = Replace(@, First(found), row)], v |-> person_id]
       ELSE [s |-> [s EXCEPT !.db.persons = @ \cup {row}], v |-> person_id]

\* ------------------------------------------------ _get_or_create_referee
GetOrCreateReferee(s, referee_id, person_id) ==
  LET found == {x \in s.db.referees : x.id = referee_id}
      row == [id |-> referee_id, person_id |-> person_id]
  IN IF found # {}
       THEN [s EXCEPT !.db.referees = Replace(@, First(found), row)]
       ELSE [s EXCEPT !.db.referees = @ \cup {row}]

\* ------------------------------------------ _process_referee_assignments
\* One entry of the loop body (lines 466-530): its own try/except swallows
\* every exception of the entry.
ProcessRefereeAssignment(s, match_id, a) ==
  LET Assign(s3) ==
        LET found == {x \in s3.db.referee_assignments :
                        x.match_id = match_id /\ x.referee_id = a.domareid
                        /\ x.role_id = a.domarrollid}
            fid == IF Falsy(a.domaruppdragid) THEN NULL ELSE a.domaruppdragid
        IN IF found # {}
             THEN [s3 EXCEPT !.db.referee_assignments =
                     Replace(@, First(found),
                       [First(found) EXCEPT !.status = a.status,
                          !.fogis_id = IF fid = NULL THEN @ ELSE Str(fid)])]
             ELSE [s3 EXCEPT !.db.referee_assignments =
                     @ \cup {[id |-> NextId(s3.db.referee_assignments),
                              match_id |-> match_id,
                              referee_id |-> a.domareid, role_id |-> a.domarrollid,
                              status |-> a.status,
                              fogis_id |-> IF fid = NULL THEN NONE ELSE Str(fid)]}]
      Role(s2) ==
        Assign(IF {x \in s2.db.referee_roles : x.id = a.domarrollid} = {}
                 THEN [s2 EXCEPT !.db.referee_roles =
                         @ \cup {[id |-> a.domarrollid, name |-> RoleName(a.namn)]}]
                 ELSE s2)
      Referee(p) == Role(GetOrCreateReferee(p.s, a.domareid, p.v))
  IN IF ~a.isMap THEN s                   \* .get on a non-mapping: caught, next entry
     ELSE IF Falsy(a.domareid) \/ Falsy(a.personid) \/ Falsy(a.domarrollid) THEN s
     ELSE Referee(GetOrCreatePerson(s, a))

RECURSIVE ProcessRefereeAssignments(_, _, _, _)
ProcessRefereeAssignments(s, match_id, referee_data, i) ==
  IF i > Len(referee_data) THEN s
  ELSE ProcessRefereeAssignments(
         ProcessRefereeAssignment(s, match_id, referee_data[i]), match_id, referee_data, i + 1)

\* ----------------------------------------------------------- _import_matches
\* A variant that looks the match up by primary key.
ExistingMatchById(s, match_id) == {m \in s.db.matches : m.id = match_id}

\* The lookup of lines 178-182: the Match rows whose fogis_id is str(match_id).
ExistingMatch(s, match_id) == {m \in s.db.matches : m.fogis_id = Str(match_id)}

\* One iteration of the loop body (lines 170-247). The result names the session
\* after the record, how the record ended and what happened to its Match row:
\*   out  = "imported" (counted), "skipped" (continue after a warning),
\*          "failed" (an exception caught by the record's handler) or
\*          "raised" (an exception leaving the loop)
\*   leaf = "created", "updated" or "none"
ImportMatch(s, r) ==
  LET \* lines 196-240, the venue v, competition c and teams h, a resolved
      Store(existing, v, c, h, a) ==
        LET s4 == a.s
            match_id == IF existing # {} THEN First(existing).id
                        ELSE NextId(s4.db.matches)
            row == [id |-> match_id, fogis_id |-> Str(r.matchid),
                    date |-> ParseDate(r.speldatum), venue_id |-> v.v,
                    competition_id |-> c.v]
            s5 == IF existing # {}
                    THEN [s4 EXCEPT !.db.matches =
                            Replace(@, First(existing),
                              [First(existing) EXCEPT !.date = row.date,
                                 !.venue_id = row.venue_id,
                                 !.competition_id = row.competition_id])]
                    ELSE [s4 EXCEPT !.db.matches = @ \cup {row}]
            leaf == IF existing # {} THEN "updated" ELSE "created"
            s6 == CreateOrUpdateMatchTeams(s5, match_id, h.v, a.v)
            refs == r.domaruppdraglista
        IN IF ParseDateRaises(r.speldatum)
             THEN [s |-> s4, out |-> "failed", leaf |-> "none"]
           ELSE IF c.v = NULL
             \* matches.competition_id is NOT NULL: the INSERT flushed at line 228,
             \* or the UPDATE flushed by _create_or_update_match_teams, fails.
             THEN [s |-> FlushFails(s4), out |-> "failed", leaf |-> "none"]
           ELSE IF refs.kind = "number"
             \* a truthy value that is not iterable: the for statement raises
             \* TypeError
             THEN [s |-> s6, out |-> "failed", leaf |-> leaf]
           ELSE IF refs.kind = "list" /\ refs.items # <<>>
             THEN [s |-> ProcessRefereeAssignments(s6, match_id, refs.items, 1),
                   out |-> "imported", leaf |-> leaf]
           ELSE [s |-> s6, out |-> "imported", leaf |-> leaf]
      AwayTeam(existing, v, c, h) ==
        Store(existing, v, c, h, GetOrCreateTeam(h.s, r, FALSE))
      HomeTeam(existing, v, c) == AwayTeam(existing, v, c, GetOrCreateTeam(c.s, r, TRUE))
      Competition(existing, v) == HomeTeam(existing, v, GetOrCreateCompetition(v.s, r))
  IN IF ~r.isMap
       \* match_data.get raises AttributeError; the handler's own
       \* match_data.get('matchid') (line 245) raises it again, outside any try.
       THEN [s |-> s, out |-> "raised", leaf |-> "none"]
     ELSE IF Falsy(r.matchid) THEN [s |-> s, out |-> "skipped", leaf |-> "none"]
     ELSE IF ~s.ok THEN [s |-> s, out |-> "failed", leaf |-> "none"]
     ELSE Competition(ExistingMatch(s, r.matchid), GetOrCreateVenue(s, r))

\* ------------------------------------------------- _get_or_create_result_type
ResultTypeName(v) == IF v = 1 THEN "Slutresultat" ELSE IF v = 2 THEN "Halvtid" ELSE "Unknown"

\* A variant that brings the name of a stored row up to date with the record.
GetOrCreateResultTypeRenames(s, result_type_id, result_data) ==
  [s EXCEPT !.db.result_types =
     {x \in @ : x.id # result_type_id}
       \cup {[id |-> result_type_id, name |-> ResultTypeName(result_data.namn)]}]

GetOrCreateResultType(s, result_type_id, result_data) ==
  IF {x \in s.db.result_types : x.id = result_type_id} # {} THEN s
  ELSE [s EXCEPT !.db.result_types =
          @ \cup {[id |-> result_type_id, name |-> ResultTypeName(result_data.namn)]}]

\* ------------------------------------------------------ _find_existing_result
\* A variant without the fallback to (match, result type).
FindExistingResultById(s, result_id, match_id, result_type_id) ==
  IF Falsy(result_id) THEN {}
  ELSE {x \in s.db.match_results : x.id = result_id}

\* A variant that sees only what was committed before the call began, not the
\* rows the session has added since.
FindExistingResultCommitted(s, result_id, match_id, result_type_id) ==
  LET by_id == IF Falsy(result_id) THEN {}
               ELSE {x \in s.base.match_results : x.id = result_id}
  IN IF by_id # {} THEN by_id
     ELSE {x \in s.base.match_results :
             x.match_id = match_id /\ x.result_type_id = result_type_id}

\* A variant that looks at the (match, result type) pair only when the record
\* has no result id.
FindExistingResultIdOrPair(s, result_id, match_id, result_type_id) ==
  IF Falsy(result_id)
    THEN {x \in s.db.match_results :
            x.match_id = match_id /\ x.result_type_id = result_type_id}
  ELSE {x \in s.db.match_results : x.id = result_id}

\* The set of rows found: by primary key when the record has a result id,
\* else (or when that finds nothing) by match and result type.
FindExistingResult(s, result_id, match_id, result_type_id) ==
  LET byId == IF Falsy(result_id) THEN {}
              ELSE {x \in s.db.match_results : x.id = result_id}
  IN IF byId # {} THEN byId
     ELSE {x \in s.db.match_results :
             x.match_id = match_id /\ x.result_type_id = result_type_id}

\* ------------------------------------------------------ _import_match_results
\* One iteration of the loop body (lines 747-804).
ImportMatchResult(s, r) ==
  LET result_id == r.matchresultatid
      home_goals == IF r.matchlag1mal = NULL THEN 0 ELSE r.matchlag1mal
      away_goals == IF r.matchlag2mal = NULL THEN 0 ELSE r.matchlag2mal
      Store(match, s1, existing) ==
        IF existing # {}
          THEN [s |-> [s1 EXCEPT !.db.match_results =
                         Replace(@, First(existing),
                           [First(existing) EXCEPT !.home_goals = home_goals,
                              !.away_goals = away_goals,
                              !.fogis_id = IF Falsy(result_id) THEN @
                                           ELSE Str(result_id)])],
                out |-> "imported", leaf |-> "updated"]
          ELSE [s |-> [s1 EXCEPT !.db.match_results =
                         @ \cup {[id |-> IF Falsy(result_id)
                                           THEN NextId(s1.db.match_results)
                                           ELSE result_id,
                                  match_id |-> First(match).id,
                                  result_type_id |-> r.matchresultattypid,
                                  home_goals |-> home_goals, away_goals |-> away_goals,
                                  fogis_id |-> IF Falsy(result_id) THEN NONE
                                               ELSE Str(result_id)]}],
                out |-> "imported", leaf |-> "created"]
      ResultType(match, s1) ==
        Store(match, s1,
              FindExistingResult(s1, result_id, First(match).id, r.matchresultattypid))
      Match(match) ==
        IF match = {} THEN [s |-> s, out |-> "skipped", leaf |-> "none"]
        ELSE ResultType(match, GetOrCreateResultType(s, r.matchresultattypid, r))
  IN IF ~r.isMap THEN [s |-> s, out |-> "failed", leaf |-> "none"]
     ELSE IF Falsy(r.matchid) \/ Falsy(r.matchresultattypid)
       THEN [s |-> s, out |-> "skipped", leaf |-> "none"]
     ELSE IF ~s.ok THEN [s |-> s, out |-> "failed", leaf |-> "none"]
     ELSE Match({m \in s.db.matches : m.fogis_id = Str(r.matchid)})

\* ------------------------------------------------------------ text as characters
\* Display names whose content the code searches are sequences of characters.
\* str.lower() on the letters the model uses.
LowerChar(c) ==
  IF c = "M" THEN "m" ELSE IF c = "G" THEN "g" ELSE IF c = "K" THEN "k"
  ELSE IF c = "U" THEN "u" ELSE IF c = "B" THEN "b" ELSE IF c = "S" THEN "s"
  ELSE IF c = "A" THEN "a" ELSE IF c = "P" THEN "p" ELSE IF c = "C" THEN "c"
  ELSE IF c = "J" THEN "j" ELSE IF c = "O" THEN "o" ELSE IF c = "N" THEN "n"
  ELSE IF c = "A~" THEN "a~" ELSE c
Lower(t) == [i \in 1..Len(t) |-> LowerChar(t[i])]

\* Python's `p in t` on strings.
Contains(t, p) ==
  \E i \in 0..(Len(t) - Len(p)) : SubSeq(t, i + 1, i + Len(p)) = p

\* The display names of event types in the source locale; "a*" stands for the
\* letter a-ring, which the literal of line 859 holds as the two characters "A~", "Y=".
EventTypeText(name) ==
  IF name = "Mal" THEN <<"M", "a*", "l">>
  ELSE IF name = "Goal" THEN <<"G", "o", "a", "l">>
  ELSE IF name = "Gult kort" THEN <<"G", "u", "l", "t", " ", "k", "o", "r", "t">>
  ELSE IF name = "Straffmal" THEN <<"S", "t", "r", "a", "f", "f", "m", "a*", "l">>
  ELSE IF name = "Byte ut" THEN <<"B", "y", "t", "e", " ", "u", "t">>
  ELSE <<"U", "n", "k", "n", "o", "w", "n">>

\* ------------------------------------------------- _get_or_create_event_type
\* event_data is the mapping the caller passes: `has` tells whether it carries
\* the keys matchhandelsetypnamn and matchhandelsetypmedforstallningsandring.
NoEventData == [has |-> FALSE, matchhandelsetypnamn |-> "", affects |-> FALSE]

GetOrCreateEventType(s, event_type_id, event_data) ==
  LET event_type_name == IF event_data.has THEN event_data.matchhandelsetypnamn
                         ELSE "Unknown"
      affects_score == IF event_data.has THEN event_data.affects ELSE FALSE
      name_lower == Lower(EventTypeText(event_type_name))
      row == [id |-> event_type_id, name |-> event_type_name,
              is_goal |-> Contains(name_lower, <<"m", "A~", "Y=", "l">>)
                          \/ Contains(name_lower, <<"g", "o", "a", "l">>),
              is_penalty |-> Contains(name_lower, <<"s", "t", "r", "a", "f", "f">>)
                             \/ Contains(name_lower, <<"p", "e", "n", "a", "l", "t", "y">>),
              is_card |-> Contains(name_lower, <<"k", "o", "r", "t">>)
                          \/ Contains(name_lower, <<"c", "a", "r", "d">>),
              is_substitution |-> Contains(name_lower, <<"b", "y", "t", "e">>)
                   \/ Contains(name_lower,
                        <<"s", "u", "b", "s", "t", "i", "t", "u", "t", "i", "o", "n">>),
              affects_score |-> affects_score]
  IN IF {x \in s.db.event_types : x.id = event_type_id} # {} THEN s
     ELSE [s EXCEPT !.db.event_types = @ \cup {row}]

\* ---------------------------------------------------- _check_event_entities
\* A variant that stores the external match id as the event's match.
CheckEventEntitiesExternalId(s, match_id, participant_id, match_team_id, event_type_id) ==
  LET participant == {x \in s.db.match_participants : x.id = participant_id}
      match_team == {x \in s.db.match_teams : x.id = match_team_id}
  IN IF participant = {}
       THEN [s |-> s, success |-> FALSE, why |-> "participant", match |-> NULL]
     ELSE IF match_team = {}
       THEN [s |-> s, success |-> FALSE, why |-> "team", match |-> NULL]
     ELSE [s |-> GetOrCreateEventType(s, event_type_id, NoEventData),
           success |-> TRUE, why |-> "", match |-> match_id]

\* A variant that does not look for the participant.
CheckEventEntitiesNoParticipant(s, match_id, participant_id, match_team_id, event_type_id) ==
  LET match == {m \in s.db.matches : m.fogis_id = Str(match_id)}
      match_team == {x \in s.db.match_teams : x.id = match_team_id}
  IN IF match = {} THEN [s |-> s, success |-> FALSE, why |-> "match", match |-> NULL]
     ELSE IF match_team = {}
       THEN [s |-> s, success |-> FALSE, why |-> "team", match |-> NULL]
     ELSE [s |-> GetOrCreateEventType(s, event_type_id, NoEventData),
           success |-> TRUE, why |-> "", match |-> First(match).id]

\* A variant that resolves the event type before it checks the references.
CheckEventEntitiesTypeFirst(s, match_id, participant_id, match_team_id, event_type_id) ==
  LET match == {m \in s.db.matches : m.fogis_id = Str(match_id)}
      participant == {x \in s.db.match_participants : x.id = participant_id}
      match_team == {x \in s.db.match_teams : x.id = match_team_id}
      s1 == GetOrCreateEventType(s, event_type_id, NoEventData)
  IN IF match = {} THEN [s |-> s1, success |-> FALSE, why |-> "match", match |-> NULL]
     ELSE IF participant = {}
       THEN [s |-> s1, success |-> FALSE, why |-> "participant", match |-> NULL]
     ELSE IF match_team = {}
       THEN [s |-> s1, success |-> FALSE, why |-> "team", match |-> NULL]
     ELSE [s |-> s1, success |-> TRUE, why |-> "", match |-> First(match).id]

\* why = "" on success, else the reference that is missing.
CheckEventEntities(s, match_id, participant_id, match_team_id, event_type_id) ==
  LET match == {m \in s.db.matches : m.fogis_id = Str(match_id)}
      participant == {x \in s.db.match_participants : x.id = participant_id}
      match_team == {x \in s.db.match_teams : x.id = match_team_id}
  IN IF match = {} THEN [s |-> s, success |-> FALSE, why |-> "match", match |-> NULL]
     ELSE IF participant = {}
       THEN [s |-> s, success |-> FALSE, why |-> "participant", match |-> NULL]
     ELSE IF match_team = {}
       THEN [s |-> s, success |-> FALSE, why |-> "team", match |-> NULL]
     ELSE [s |-> GetOrCreateEventType(s, event_type_id, NoEventData),
           success |-> TRUE, why |-> "", match |-> First(match).id]

\* --------------------------------------------------- _extract_event_details
RelatedEventId(event_data) ==
  IF event_data.relateradTillMatchhandelseID = 0 THEN NULL
  ELSE event_data.relateradTillMatchhandelseID

\* -------------------------------------------------- _create_or_update_event
CreateOrUpdateEvent(s, event_data, match_id) ==
  LET event_id == event_data.matchhandelseid
      existing == IF Falsy(event_id) THEN {}
                  ELSE {x \in s.db.match_events : x.id = event_id}
      row == [id |-> IF event_id = NULL THEN NextId(s.db.match_events) ELSE event_id,
              match_id |-> match_id,
              participant_id |-> event_data.matchdeltagareid,
              event_type_id |-> event_data.matchhandelsetypid,
              match_team_id |-> event_data.matchlagid,
              minute |-> event_data.matchminut,
              related_event_id |-> RelatedEventId(event_data),
              fogis_id |-> IF Falsy(event_id) THEN NONE ELSE Str(event_id)]
  IN IF existing # {}
       THEN [s |-> [s EXCEPT !.db.match_events =
                      Replace(@, First(existing), [row EXCEPT !.id = First(existing).id])],
             leaf |-> "updated"]
       ELSE [s |-> [s EXCEPT !.db.match_events = @ \cup {row}], leaf |-> "created"]

\* ------------------------------------------------------- _import_match_events
\* One iteration of the loop body (lines 1032-1066).
ImportMatchEvent(s, r) ==
  LET Stored(ev) == [s |-> ev.s, out |-> "imported", leaf |-> ev.leaf]
      Checked(chk) ==
        IF ~chk.success THEN [s |-> chk.s, out |-> "skipped", leaf |-> "none"]
        ELSE Stored(CreateOrUpdateEvent(chk.s, r, chk.match))
  IN IF ~r.isMap THEN [s |-> s, out |-> "failed", leaf |-> "none"]
     ELSE IF Falsy(r.matchid) \/ Falsy(r.matchhandelsetypid)
             \/ Falsy(r.matchdeltagareid) \/ Falsy(r.matchlagid)
       THEN [s |-> s, out |-> "skipped", leaf |-> "none"]
     ELSE IF ~s.ok THEN [s |-> s, out |-> "failed", leaf |-> "none"]
     ELSE Checked(CheckEventEntities(s, r.matchid, r.matchdeltagareid, r.matchlagid,
                                     r.matchhandelsetypid))

\* ------------------------------------------------- _import_match_participants
\* A variant without the `if x == 0: x = None` step.
SubstitutionMinuteVerbatim(x) == IF x = NULL THEN 0 ELSE x

\* dict.get(key, 0) followed by `if x == 0: x = None`.
SubstitutionMinute(x) ==
  LET got == IF x = NULL THEN 0 ELSE x
  IN IF got = 0 THEN NULL ELSE got

\* One iteration of the loop body (lines 1083-1194).
ImportMatchParticipant(s, r) ==
  LET Store(match, p) ==
        LET existing == {x \in p.s.db.match_participants : x.id = r.matchdeltagareid}
            row == [id |-> r.matchdeltagareid, match_id |-> First(match).id,
                    match_team_id |-> r.matchlagid, player_id |-> p.v,
                    substitution_in_minute |-> SubstitutionMinute(r.byte1),
                    substitution_out_minute |-> SubstitutionMinute(r.byte2),
                    fogis_id |-> NONE]
        IN IF existing # {}
             THEN [s |-> [p.s EXCEPT !.db.match_participants =
                            Replace(@, First(existing),
                                    [row EXCEPT !.fogis_id = First(existing).fogis_id])],
                   out |-> "imported", leaf |-> "updated"]
             ELSE [s |-> [p.s EXCEPT !.db.match_participants = @ \cup {row}],
                   out |-> "imported", leaf |-> "created"]
      Found(match, match_team) ==
        IF match = {} THEN [s |-> s, out |-> "skipped", leaf |-> "none"]
        ELSE IF match_team = {} THEN [s |-> s, out |-> "skipped", leaf |-> "none"]
        ELSE IF Falsy(r.personid)
          \* _get_or_create_person raises ValueError("Person data missing personid")
          THEN [s |-> s, out |-> "failed", leaf |-> "none"]
        ELSE Store(match, GetOrCreatePerson(s, r))
  IN IF ~r.isMap THEN [s |-> s, out |-> "failed", leaf |-> "none"]
     ELSE IF Falsy(r.matchid) \/ Falsy(r.matchlagid)
             \/ Falsy(r.spelareid) \/ Falsy(r.matchdeltagareid)
       THEN [s |-> s, out |-> "skipped", leaf |-> "none"]
     ELSE IF ~s.ok THEN [s |-> s, out |-> "failed", leaf |-> "none"]
     ELSE Found({m \in s.db.matches : m.fogis_id = Str(r.matchid)},
                {x \in s.db.match_teams : x.id = r.matchlagid})

\* ------------------------------------------------------ _determine_data_type
\* A decoded JSON value is [shape, items]: shape "list" with its elements, shape
\* "map" with the one mapping, shape "scalar" (a string, number, boolean or null)
\* with no items. An element is a mapping (isMap) or a value of JSON kind `json`.
\* The __type of a mapping is "#absent" (no such key), "#null", "#number" or a string.
DetermineDataType(data) ==
  IF data.shape = "list" /\ Len(data.items) > 0
    THEN LET first == data.items[1]
         IN IF first.isMap
              THEN IF first.type # "#absent"
                     THEN [raises |-> FALSE, data_type |-> first.type,
                           normalized |-> data.items]
                     ELSE [raises |-> FALSE, data_type |-> "", normalized |-> data.items]
            ELSE IF first.json \in {"number", "null", "boolean"}
              \* `"__type" in 5`: TypeError, argument is not iterable
              THEN [raises |-> TRUE, data_type |-> "", normalized |-> <<>>]
            ELSE IF first.json = "string holding __type"
              \* `"__type" in "a__type"` is true, then `data[0]["__type"]`:
              \* TypeError, string indices must be integers
              THEN [raises |-> TRUE, data_type |-> "", normalized |-> <<>>]
            \* a string or a list that does not hold "__type"
            ELSE [raises |-> FALSE, data_type |-> "", normalized |-> data.items]
  ELSE IF data.shape = "map"
    THEN IF data.items[1].type # "#absent"
           THEN [raises |-> FALSE, data_type |-> data.items[1].type,
                 normalized |-> data.items]
           ELSE [raises |-> FALSE, data_type |-> "", normalized |-> data.items]
  ELSE [raises |-> FALSE, data_type |-> "", normalized |-> <<>>]

\* `if data_type:` (line 144)
Truthy(data_type) == data_type \notin {"", "#null"}

\* The characters of a type tag.
TagText(tag) ==
  IF tag = "F.MatchJSON" THEN <<"F", ".", "M", "a", "t", "c", "h", "J", "S", "O", "N">>
  ELSE IF tag = "F.MatchresultatJSON"
    THEN <<"F", ".", "M", "a", "t", "c", "h", "r", "e", "s", "u", "l", "t", "a", "t",
           "J", "S", "O", "N">>
  ELSE IF tag = "F.MatchhandelseJSON"
    THEN <<"F", ".", "M", "a", "t", "c", "h", "h", "a", "n", "d", "e", "l", "s", "e",
           "J", "S", "O", "N">>
  ELSE IF tag = "F.MatchdeltagareJSON"
    THEN <<"F", ".", "M", "a", "t", "c", "h", "d", "e", "l", "t", "a", "g", "a", "r", "e",
           "J", "S", "O", "N">>
  ELSE IF tag = "F.matchjson"
    THEN <<"F", ".", "m", "a", "t", "c", "h", "j", "s", "o", "n">>
  ELSE <<"F", ".", "L", "a", "g", "J", "S", "O", "N">>

\* The importer _process_data_by_type selects (lines 113-123): "" for none.
\* Called with a truthy data_type that is a string.
ImporterFor(data_type) ==
  LET text == TagText(data_type)
  IN IF Contains(text, <<"M", "a", "t", "c", "h", "J", "S", "O", "N">>) THEN "matches"
     ELSE IF Contains(text, <<"M", "a", "t", "c", "h", "r", "e", "s", "u", "l", "t", "a",
                              "t", "J", "S", "O", "N">>) THEN "results"
     ELSE IF Contains(text, <<"M", "a", "t", "c", "h", "h", "a", "n", "d", "e", "l", "s",
                              "e", "J", "S", "O", "N">>) THEN "events"
     ELSE IF Contains(text, <<"M", "a", "t", "c", "h", "d", "e", "l", "t", "a", "g", "a",
                              "r", "e", "J", "S", "O", "N">>) THEN "participants"
     ELSE ""

\* The loop body of the selected importer.
ImportRecord(importer, s, r) ==
  IF importer = "matches" THEN ImportMatch(s, r)
  ELSE IF importer = "results" THEN ImportMatchResult(s, r)
  ELSE IF importer = "events" THEN ImportMatchEvent(s, r)
  ELSE ImportMatchParticipant(s, r)

\* What a call records about one record: how it ended, what happened to its
\* leaf row, and whether any row of the session's view changed while it ran.
Observed(s, res) ==
  [out |-> res.out, leaf |-> res.leaf, changed |-> res.s.db # s.db]

\* A variant that counts only the records whose leaf row was created.
RECURSIVE ImportRecordsCountsCreated(_, _, _, _, _, _)
ImportRecordsCountsCreated(importer, s, data, i, imported_count, log) ==
  LET Step(res, log1) ==
        IF res.out = "raised"
          THEN [s |-> res.s, raised |-> TRUE, count |-> imported_count, log |-> log1]
          ELSE ImportRecordsCountsCreated(importer, res.s, data, i + 1,
                 IF res.out = "imported" /\ res.leaf = "created"
                   THEN imported_count + 1 ELSE imported_count,
                 log1)
      Body(res) == Step(res, Append(log, Observed(s, res)))
  IN IF i > Len(data)
       THEN [s |-> s, raised |-> FALSE, count |-> imported_count, log |-> log]
       ELSE Body(ImportRecord(importer, s, data[i]))

\* The for loops of _import_matches, _import_match_results, _import_match_events
\* and _import_match_participants: imported_count counts the records that reach
\* the end of the loop body; an exception that leaves the body ends the loop.
RECURSIVE ImportRecords(_, _, _, _, _, _)
ImportRecords(importer, s, data, i, imported_count, log) ==
  LET Step(res, log1) ==
        IF res.out = "raised"
          THEN [s |-> res.s, raised |-> TRUE, count |-> imported_count, log |-> log1]
          ELSE ImportRecords(importer, res.s, data, i + 1,
                             IF res.out = "imported" THEN imported_count + 1
                             ELSE imported_count,
                             log1)
      Body(res) == Step(res, Append(log, Observed(s, res)))
  IN IF i > Len(data)
       THEN [s |-> s, raised |-> FALSE, count |-> imported_count, log |-> log]
       ELSE Body(ImportRecord(importer, s, data[i]))

\* ---------------------------------------------------- _process_data_by_type
ProcessDataByType(s, data_type, data) ==
  IF data_type = "#number"
    \* `"MatchJSON" in 5`: TypeError
    THEN [s |-> s, raised |-> TRUE, count |-> 0, log |-> <<>>]
  ELSE IF ImporterFor(data_type) = ""
    THEN [s |-> s, raised |-> FALSE, count |-> 0, log |-> <<>>]
  ELSE ImportRecords(ImporterFor(data_type), s, data, 1, 0, <<>>)

\* ------------------------------------------------------------ the session
\* Session.commit(): raises when the transaction was rolled back by a failed flush.
CommitRaises(s) == ~s.ok
\* The committed store after Session.commit() returned.
Commit(s) == s.db
\* A variant that leaves the session's pending work in the store.
RollbackKeepsWork(s) == s.db
\* The committed store after Session.rollback().
Rollback(s) == s.base

\* --------------------------------------------------------- import_from_json
\* A variant that commits only inside `if data_type:`.
TryBlockCommitWhenTyped(s, data) ==
  LET Finish(cls, run) ==
        IF cls.raises
          THEN [s |-> s, raised |-> TRUE, committed |-> FALSE, commit_at |-> NULL,
                count |-> 0, log |-> <<>>]
        ELSE IF ~Truthy(cls.data_type)
          THEN [s |-> s, raised |-> FALSE, committed |-> FALSE, commit_at |-> NULL,
                count |-> 0, log |-> <<>>]
        ELSE IF run.raised
          THEN [s |-> run.s, raised |-> TRUE, committed |-> FALSE, commit_at |-> NULL,
                count |-> run.count, log |-> run.log]
        ELSE [s |-> run.s, raised |-> CommitRaises(run.s),
              committed |-> ~CommitRaises(run.s), commit_at |-> Len(run.log),
              count |-> run.count, log |-> run.log]
      Classified(cls) ==
        Finish(cls, ProcessDataByType(s, cls.data_type, cls.normalized))
  IN Classified(DetermineDataType(data))

\* The try block (lines 142-148): classify, dispatch when the tag is truthy,
\* commit. `committed` tells whether Session.commit() was called and returned,
\* commit_at the number of records the loop had taken when it was called
\* (NULL: it was not called).
TryBlock(s, data) ==
  LET Finish(cls, run) ==
        IF cls.raises
          THEN [s |-> s, raised |-> TRUE, committed |-> FALSE, commit_at |-> NULL,
                count |-> 0, log |-> <<>>]
        ELSE IF run.raised
          THEN [s |-> run.s, raised |-> TRUE, committed |-> FALSE, commit_at |-> NULL,
                count |-> run.count, log |-> run.log]
        ELSE [s |-> run.s, raised |-> CommitRaises(run.s),
              committed |-> ~CommitRaises(run.s), commit_at |-> Len(run.log),
              count |-> run.count, log |-> run.log]
      Classified(cls) ==
        Finish(cls, IF Truthy(cls.data_type)
                      THEN ProcessDataByType(s, cls.data_type, cls.normalized)
                      ELSE [s |-> s, raised |-> FALSE, count |-> 0, log |-> <<>>])
  IN Classified(DetermineDataType(data))

\* The whole call on committed store st: the store it leaves, whether it raised,
\* the count it returned (NULL when it raised), the commits that returned, the
\* rollbacks issued, and the per-record log.
ImportFromJson(st, data) ==
  LET Outcome(t) ==
        IF t.raised
          THEN [store |-> Rollback(t.s), raised |-> TRUE, count |-> NULL,
                commits |-> 0, rollbacks |-> 1, commit_at |-> t.commit_at,
                log |-> t.log]
          ELSE [store |-> IF t.committed THEN Commit(t.s) ELSE st, raised |-> FALSE,
                count |-> t.count, commits |-> IF t.committed THEN 1 ELSE 0,
                rollbacks |-> 0, commit_at |-> t.commit_at, log |-> t.log]
  IN Outcome(TryBlock(Begin(st), data))

\* ------------------------------------------------------------------ inputs
RefAssignment(referee, person, role, ver) ==
  [isMap |-> TRUE, domareid |-> referee, personid |-> person, domarrollid |-> role,
   namn |-> ver, status |-> IF ver = 1 THEN "Tilldelat" ELSE "Klar",
   domaruppdragid |-> IF ver = 1 THEN NULL ELSE 4]
NoRefs == [kind |-> "absent", items |-> <<>>]
Refs(items) == [kind |-> "list", items |-> items]
NotIterable == [kind |-> "number", items |-> <<>>]

NotAMapping(json) == [isMap |-> FALSE, json |-> json]

MatchRecord(id, comp, venue, home, away, date, refs, ver) ==
  [isMap |-> TRUE, type |-> "F.MatchJSON", matchid |-> id, tavlingid |-> comp,
   tavlingskategoriid |-> comp, anlaggningid |-> venue,
   lag1lagid |-> home, lag1foreningid |-> home, lag2lagid |-> away,
   lag2foreningid |-> away, speldatum |-> date, domaruppdraglista |-> refs,
   namn |-> ver]

MatchRecords ==
  { MatchRecord(1, 1, 1, 1, 2, "ok", Refs(<<RefAssignment(1, 1, 1, 1)>>), 1),
    MatchRecord(2, 1, 1, 1, 2, "ok", NoRefs, 1),
    MatchRecord(1, 1, 1, 1, 2, "bad", NoRefs, 1),
    MatchRecord(NULL, 1, 1, 1, 2, "ok", NoRefs, 1),
    MatchRecord(1, NULL, 1, 1, 2, "ok", NoRefs, 1),
    MatchRecord(2, 1, 1, 1, 2, "ok", NotIterable, 1),
    NotAMapping("number") }

ResultRecord(id, match, rtype, goals, ver) ==
  [isMap |-> TRUE, type |-> "F.MatchresultatJSON", matchresultatid |-> id,
   matchid |-> match, matchresultattypid |-> rtype, matchlag1mal |-> goals,
   matchlag2mal |-> NULL, namn |-> ver]

ResultRecords ==
  { ResultRecord(1, 1, 1, 2, 1),
    ResultRecord(NULL, 1, 1, 1, 2),
    ResultRecord(2, 1, NULL, 1, 1),
    NotAMapping("string") }

ParticipantRecord(id, match, team, player, person, byte1, byte2) ==
  [isMap |-> TRUE, type |-> "F.MatchdeltagareJSON", matchdeltagareid |-> id,
   matchid |-> match, matchlagid |-> team, spelareid |-> player, personid |-> person,
   byte1 |-> byte1, byte2 |-> byte2, namn |-> 1]

ParticipantRecords ==
  { ParticipantRecord(1, 1, 1, 1, 1, 0, 75),
    ParticipantRecord(2, 1, 3, 2, NULL, 0, 0),
    ParticipantRecord(2, 2, 1, 2, 2, 46, NULL),
    ParticipantRecord(NULL, 1, 1, 1, 1, 0, 0),
    NotAMapping("null") }

EventRecord(id, match, etype, participant, team, related, name) ==
  [isMap |-> TRUE, type |-> "F.MatchhandelseJSON", matchhandelseid |-> id,
   matchid |-> match, matchhandelsetypid |-> etype, matchdeltagareid |-> participant,
   matchlagid |-> team, matchminut |-> 45, relateradTillMatchhandelseID |-> related,
   matchhandelsetypnamn |-> name, affects |-> TRUE]

EventRecords ==
  { EventRecord(1, 1, 1, 1, 1, 0, "Mal"),
    EventRecord(NULL, 1, 1, 1, 3, 0, "Mal"),
    EventRecord(2, 1, NULL, 1, 1, 0, "Mal"),
    EventRecord(2, 2, 2, 2, 1, 1, "Gult kort"),
    NotAMapping("list") }

\* The lists of 1..MaxLen records drawn from R.
ListsOf(R) ==
  UNION { { [shape |-> "list", items |-> f] : f \in [1..n -> R] } : n \in 1..MaxLen }

Untyped(shape) ==
  [shape |-> shape,
   items |-> <<[isMap |-> TRUE, type |-> "#absent", matchid |-> 1]>>]
Typed(tag) ==
  [shape |-> "list", items |-> <<[isMap |-> TRUE, type |-> tag, matchid |-> 1]>>]

OtherInputs ==
  { [shape |-> "scalar", items |-> <<>>], [shape |-> "list", items |-> <<>>],
    Untyped("list"), Untyped("map"),
    Typed(""), Typed("#null"), Typed("#number"), Typed("F.LagJSON"), Typed("F.matchjson"),
    [shape |-> "list", items |-> <<NotAMapping("number")>>],
    [shape |-> "list", items |-> <<NotAMapping("string")>>],
    [shape |-> "list", items |-> <<NotAMapping("string holding __type")>>] }

Single(R) == { [shape |-> "map", items |-> <<r>>] : r \in {x \in R : x.isMap} }

RecordFiles(R) ==
  { d \in ListsOf(R) : d.items[1].isMap } \cup Single(R)

\* ----------------------------------------------------------- import_from_csv
\* A variant that takes the header line for a row.
ReadCsvWithHeader(file) == file

\* A CSV file is the sequence of its lines. csv.DictReader takes the first line
\* as the header, passes over blank lines and yields one mapping per other line.
ReadCsv(file) ==
  LET NotBlank(line) == line # "blank"
  IN IF file = <<>> THEN <<>> ELSE SelectSeq(Tail(file), NotBlank)

\* The call on committed store st: nothing is asked of the session.
ImportFromCsv(st, file) ==
  [store |-> st, raised |-> FALSE, count |-> Len(ReadCsv(file)), commits |-> 0,
   rollbacks |-> 0]

\* The CSV files: empty, a header only, a header and 1..MaxLen lines each of
\* which is a row or blank.
CsvFiles ==
  {<<>>} \cup UNION { { <<"header">> \o f : f \in [1..n -> {"row", "blank"}] } : n \in 0..MaxLen }

\* ------------------------------------------------------------------ __exit__
\* The calls __exit__ makes on the session, in order, and whether it raised.
\* exc: an exception left the body of the with statement; rollback_ok: whether
\* Session.rollback() returns (it raises when the connection is gone).
LeaveScope(exc, rollback_ok) ==
  IF ~exc THEN [exc |-> FALSE, trace |-> <<"close">>, raised |-> FALSE]
  ELSE IF rollback_ok
    THEN [exc |-> TRUE, trace |-> <<"rollback", "close">>, raised |-> FALSE]
  ELSE [exc |-> TRUE, trace |-> <<"rollback">>, raised |-> TRUE]

\* ------------------------------------------------------------------- state
VARIABLES
  store,   \* the committed content of the database
  pc,      \* where the caller stands: "ready" to call, a call has "returned",
           \* or the with statement is "exited"
  calls,   \* the number of files taken up so far
  last,    \* the call that has returned: its input, its outcome, the store before
  exit     \* what __exit__ did, once the with statement is left

vars == <<store, pc, calls, last, exit>>

NoCall ==
  [op |-> "none", data |-> [shape |-> "scalar", items |-> <<>>], again |-> FALSE,
   first |-> NULL, prev |-> EmptyStore, raised |-> FALSE, count |-> 0, commits |-> 0,
   rollbacks |-> 0, commit_at |-> NULL, log |-> <<>>]

NoExit == [exc |-> FALSE, trace |-> <<>>, raised |-> FALSE]

\* `with DataImporter(session=session) as importer:` on an empty database.
Init ==
  /\ store = EmptyStore
  /\ pc = "ready"
  /\ calls = 0
  /\ last = NoCall
  /\ exit = NoExit

\* The effect of importer.import_from_json(path), path holding the JSON value data.
\* `first` keeps the count of the import before when the file is imported again.
Returned(data, again) ==
  LET Record(res) ==
        /\ pc' = "returned"
        /\ store' = res.store
        /\ last' = [op |-> "json", data |-> data, again |-> again,
                    first |-> IF again THEN last.count ELSE NULL, prev |-> store,
                    raised |-> res.raised, count |-> res.count,
                    commits |-> res.commits, rollbacks |-> res.rollbacks,
                    commit_at |-> res.commit_at, log |-> res.log]
        /\ UNCHANGED exit
  IN Record(ImportFromJson(store, data))

Call(data) ==
  /\ pc = "ready"
  /\ calls < MaxCalls
  /\ calls' = calls + 1
  /\ Returned(data, FALSE)

ImportMatchFile == \E data \in RecordFiles(MatchRecords) : Call(data)
ImportResultFile == \E data \in RecordFiles(ResultRecords) : Call(data)
ImportParticipantFile == \E data \in RecordFiles(ParticipantRecords) : Call(data)
ImportEventFile == \E data \in RecordFiles(EventRecords) : Call(data)
ImportOtherFile == \E data \in OtherInputs : Call(data)

\* The caller imports the file it has just imported once more.
ImportAgain ==
  /\ pc = "returned"
  /\ last.op = "json"
  /\ ~last.again
  /\ UNCHANGED calls
  /\ Returned(last.data, TRUE)

\* importer.import_from_csv(path), path holding the lines of file.
ImportCsvFile ==
  \E file \in CsvFiles :
    LET Record(res) ==
          /\ store' = res.store
          /\ last' = [NoCall EXCEPT !.op = "csv",
                        !.data = [shape |-> "csv", items |-> <<>>, lines |-> file],
                        !.prev = store, !.raised = res.raised, !.count = res.count,
                        !.commits = res.commits, !.rollbacks = res.rollbacks]
    IN /\ pc = "ready"
       /\ calls < MaxCalls
       /\ calls' = calls + 1
       /\ pc' = "returned"
       /\ Record(ImportFromCsv(store, file))
       /\ UNCHANGED exit

\* The caller reports the outcome (examples/import_example.py line 31, cli.py
\* lines 115 and 118) and is ready for the next file.
Report ==
  /\ pc = "returned"
  /\ pc' = "ready"
  /\ last' = NoCall
  /\ UNCHANGED <<store, calls, exit>>

\* The body of the with statement ends: __exit__(None, None, None).
ExitScope ==
  /\ pc = "ready"
  /\ pc' = "exited"
  /\ exit' = LeaveScope(FALSE, TRUE)
  /\ UNCHANGED <<store, calls, last>>

\* The exception of a call leaves the body: __exit__(exc_type, exc_val, exc_tb).
\* Each call has ended its own transaction, so the rollback finds nothing to undo.
ExitOnError ==
  /\ pc = "returned"
  /\ last.raised
  /\ pc' = "exited"
  /\ \E rollback_ok \in BOOLEAN : exit' = LeaveScope(TRUE, rollback_ok)
  /\ last' = NoCall
  /\ UNCHANGED <<store, calls>>

Next ==
  \/ ImportMatchFile
  \/ ImportResultFile
  \/ ImportParticipantFile
  \/ ImportEventFile
  \/ ImportOtherFile
  \/ ImportCsvFile
  \/ ImportAgain
  \/ Report
  \/ ExitScope
  \/ ExitOnError

Spec == Init /\ [][Next]_vars

\* ------------------------------------------------- imports of match files only
\* Match records that differ in what they carry for one match: no venue, no away
\* team, the teams the other way round under other names, one team on both
\* sides, a date that is JSON null, no competition.
MatchVariants ==
  { MatchRecord(1, 1, 1, 1, 2, "ok", Refs(<<RefAssignment(1, 1, 1, 1)>>), 1),
    MatchRecord(1, 1, NULL, 1, 2, "ok", NoRefs, 1),
    MatchRecord(1, 1, 1, 1, NULL, "bad", NoRefs, 1),
    MatchRecord(1, 1, 1, 2, 1, "ok", Refs(<<RefAssignment(1, 1, 1, 2)>>), 2),
    MatchRecord(1, 1, 1, 1, 1, "ok", NoRefs, 1),
    MatchRecord(2, 1, 1, 1, 2, "null", NoRefs, 2),
    MatchRecord(2, NULL, 1, 1, 2, "ok", NoRefs, 1) }

ImportMatchVariantFile == \E data \in RecordFiles(MatchVariants) : Call(data)

MatchNext == ImportMatchVariantFile \/ ImportAgain \/ Report

MatchSpec == Init /\ [][MatchNext]_vars

\* ------------------------------------------------ imports of result files only
\* The store after a file with matches 1 and 2 has been imported into an empty
\* database.
TwoMatches ==
  ImportFromJson(EmptyStore,
    [shape |-> "list",
     items |-> <<MatchRecord(1, 1, 1, 1, 2, "ok", NoRefs, 1),
                 MatchRecord(2, 1, 1, 1, 2, "ok", NoRefs, 1)>>]).store

\* Result records that name the same result id under different matches, the
\* same (match, result type) pair under different result ids or under none.
ResultVariants ==
  { ResultRecord(1, 1, 1, 2, 1),
    ResultRecord(NULL, 1, 1, 1, 2),
    ResultRecord(1, 2, 1, 3, 1),
    ResultRecord(2, 1, 1, 0, 1),
    ResultRecord(2, 2, 2, 1, 2),
    ResultRecord(NULL, 2, 1, 4, 1) }

ResultInit ==
  /\ store = TwoMatches
  /\ pc = "ready"
  /\ calls = 0
  /\ last = NoCall
  /\ exit = NoExit

ImportResultVariantFile == \E data \in RecordFiles(ResultVariants) : Call(data)

ResultNext == ImportResultVariantFile \/ ImportAgain \/ Report

ResultSpec == ResultInit /\ [][ResultNext]_vars

\* ================================================================ properties
\* The kind of a file: the __type of its first record ("" when it has none).
Kind(data) ==
  IF data.items = <<>> \/ ~data.items[1].isMap THEN "" ELSE data.items[1].type

\* The tables of the store.
Tables == DOMAIN EmptyStore

\* The records of the call that has returned, by position.
Records == 1..Len(last.data.items)
Logged == 1..Len(last.log)

\* ------------------------------------------------------------------------ C1
\* C1: after any sequence of imports the store holds at most one Match row per
\* fogis_id, and a call never removes or renumbers a Match row: every Match of
\* the store before the call is in the store after it with the same internal id
\* and the same fogis_id, so importing a match id that is present updates that
\* row and adds no second one.
C1_OneMatchPerFogisId ==
  /\ \A m, n \in store.matches : m.fogis_id = n.fogis_id => m = n
  /\ pc = "returned" =>
       \A m \in last.prev.matches :
         \E n \in store.matches : n.id = m.id /\ n.fogis_id = m.fogis_id

\* A Match file whose record names a match id already present has been imported
\* and has changed the row it found.
C1_Witness ==
  /\ pc = "returned" /\ ~last.raised /\ Kind(last.data) = "F.MatchJSON"
  /\ \E i \in Logged :
       /\ last.log[i].out = "imported" /\ last.log[i].leaf = "updated"
       /\ \E m \in last.prev.matches :
            /\ m.fogis_id = Str(last.data.items[i].matchid)
            /\ m \notin store.matches
            /\ Cardinality(store.matches) = Cardinality(last.prev.matches)

\* ------------------------------------------------------------------------ C2
\* The records of the returned call that are MatchEvents without an external
\* event id and were stored.
StoredEventsWithoutId ==
  { i \in Logged :
      /\ Kind(last.data) = "F.MatchhandelseJSON"
      /\ last.data.items[i].isMap
      /\ Falsy(last.data.items[i].matchhandelseid)
      /\ last.log[i].out = "imported" }

\* C2 as stated: importing the same file a second time into the store its first
\* import left adds no row to any table, whatever the kind of the file and
\* whether or not its records carry an external id.
C2_SecondImportAddsNoRow ==
  (pc = "returned" /\ last.again) =>
    \A t \in Tables : Cardinality(store[t]) = Cardinality(last.prev[t])

\* C2 amended: the second import of a file adds no row to any table, except one
\* MatchEvent row for every stored MatchEvent record that has no external event
\* id; such a record is inserted anew by each import.
C2_SecondImportAddsOnlyEventsWithoutId ==
  (pc = "returned" /\ last.again) =>
    \A t \in Tables :
      Cardinality(store[t]) =
        Cardinality(last.prev[t])
          + (IF t = "match_events" /\ ~last.raised
               THEN Cardinality(StoredEventsWithoutId) ELSE 0)

\* A file of each kind has been imported twice with records that were stored:
\* here a result file whose record has no result id, found again by (match, type).
C2_Witness ==
  /\ pc = "returned" /\ last.again /\ ~last.raised
  /\ Kind(last.data) = "F.MatchresultatJSON"
  /\ \E i \in Logged :
       /\ last.log[i].out = "imported" /\ last.log[i].leaf = "updated"
       /\ Falsy(last.data.items[i].matchresultatid)

\* ------------------------------------------------------------------------ C3
\* C3: the store holds at most one MatchTeam per (match, team) and at most one
\* RefereeAssignment per (match, referee, role), and importing a Match file a
\* second time leaves the numbers of Match, MatchTeam, Referee and
\* RefereeAssignment rows unchanged.
C3_MatchTeamsAndAssignmentsUnique ==
  /\ \A x, y \in store.match_teams :
       (x.match_id = y.match_id /\ x.team_id = y.team_id) => x = y
  /\ \A x, y \in store.referee_assignments :
       (x.match_id = y.match_id /\ x.referee_id = y.referee_id
          /\ x.role_id = y.role_id) => x = y
  /\ (pc = "returned" /\ last.again /\ Kind(last.data) = "F.MatchJSON") =>
       \A t \in {"matches", "match_teams", "referees", "referee_assignments"} :
         Cardinality(store[t]) = Cardinality(last.prev[t])

\* A Match file with a referee assignment has been imported a second time, the
\* match, its two teams and its assignment being found.
C3_Witness ==
  /\ pc = "returned" /\ last.again /\ ~last.raised /\ Kind(last.data) = "F.MatchJSON"
  /\ \E i \in Logged :
       /\ last.log[i].out = "imported" /\ last.log[i].leaf = "updated"
       /\ last.data.items[i].domaruppdraglista.kind = "list"
  /\ Cardinality(store.match_teams) >= 2
  /\ store.referee_assignments # {}

\* ------------------------------------------------------------------------ C4
\* The Match rows a leaf record names: those whose fogis_id is the record's
\* external match id.
MatchesNamed(st, r) ==
  IF Falsy(r.matchid) THEN {} ELSE {m \in st.matches : m.fogis_id = Str(r.matchid)}

LeafKinds == {"F.MatchresultatJSON", "F.MatchhandelseJSON", "F.MatchdeltagareJSON"}

\* C4: every stored MatchResult, MatchEvent and MatchParticipant references a
\* Match row of the store, and a leaf record whose match id names no Match of
\* the store writes no leaf row, whatever else it carries.
C4_LeafRowsReferenceAMatch ==
  /\ \A t \in {"match_results", "match_events", "match_participants"} :
       \A x \in store[t] : \E m \in store.matches : m.id = x.match_id
  /\ (pc = "returned" /\ Kind(last.data) \in LeafKinds) =>
       \A i \in Logged :
         (last.data.items[i].isMap /\ MatchesNamed(last.prev, last.data.items[i]) = {})
           => (last.log[i].leaf = "none" /\ ~last.log[i].changed)

\* Leaf rows are stored, and a leaf record that names an unknown match, all its
\* ids present, has been taken up.
C4_Witness ==
  /\ pc = "returned" /\ ~last.raised /\ Kind(last.data) \in LeafKinds
  /\ store.match_participants # {}
  /\ store.matches # {}
  /\ \E i \in Logged :
       /\ last.data.items[i].isMap
       /\ ~Falsy(last.data.items[i].matchid)
       /\ MatchesNamed(last.prev, last.data.items[i]) = {}
       /\ last.log[i].out = "skipped"

\* ------------------------------------------------------------------------ C5
\* The MatchEvent records of the returned call that carry all four required ids.
CompleteEvents ==
  { i \in Logged :
      /\ Kind(last.data) = "F.MatchhandelseJSON"
      /\ last.data.items[i].isMap
      /\ ~Falsy(last.data.items[i].matchid)
      /\ ~Falsy(last.data.items[i].matchhandelsetypid)
      /\ ~Falsy(last.data.items[i].matchdeltagareid)
      /\ ~Falsy(last.data.items[i].matchlagid) }

\* The record's participant or its match team is not in store st.
LacksParticipantOrTeam(st, r) ==
  \/ \A x \in st.match_participants : x.id # r.matchdeltagareid
  \/ \A x \in st.match_teams : x.id # r.matchlagid

\* C5: a MatchEvent record whose MatchParticipant or MatchTeam is not in the
\* store when it is processed is skipped: no row is written, it is not counted
\* and nothing is raised; so an events file imported before its participants
\* stores nothing and returns 0, and a later import of another kind of file
\* leaves the MatchEvent table as it is.
C5_EventsNeedParticipantAndTeam ==
  /\ (pc = "returned" /\ Kind(last.data) = "F.MatchhandelseJSON") =>
       /\ ~last.raised
       /\ \A i \in CompleteEvents :
            LacksParticipantOrTeam(last.prev, last.data.items[i]) =>
              /\ last.log[i].out = "skipped" /\ last.log[i].leaf = "none"
              /\ ~last.log[i].changed
       /\ (\A i \in Records : last.data.items[i].isMap =>
              LacksParticipantOrTeam(last.prev, last.data.items[i])) =>
            (last.count = 0 /\ store = last.prev)
  /\ (pc = "returned" /\ Kind(last.data) # "F.MatchhandelseJSON") =>
       store.match_events = last.prev.match_events

\* An events file with a complete record has been imported into a store that
\* holds the record's match and match team but not its participant.
C5_Witness ==
  /\ pc = "returned" /\ Kind(last.data) = "F.MatchhandelseJSON"
  /\ last.count = 0
  /\ \E i \in CompleteEvents :
       /\ MatchesNamed(last.prev, last.data.items[i]) # {}
       /\ \E x \in last.prev.match_teams : x.id = last.data.items[i].matchlagid
       /\ \A x \in last.prev.match_participants : x.id # last.data.items[i].matchdeltagareid
       /\ last.log[i].out = "skipped"

\* ------------------------------------------------------------------------ C6
\* C6: a call that raises has rolled the session back once, no commit of it has
\* taken effect, and the store is the store before the call.
C6_RaisedCallLeavesStore ==
  (pc = "returned" /\ last.raised) =>
    /\ store = last.prev
    /\ last.rollbacks = 1
    /\ last.commits = 0

\* A call has raised after a record of it had changed rows of the session.
C6_Witness ==
  /\ pc = "returned" /\ last.raised
  /\ \E i \in Logged : last.log[i].changed /\ last.log[i].out = "imported"

\* ------------------------------------------------------------------------ C7
RecordKinds == LeafKinds \cup {"F.MatchJSON"}

\* C7: a call that returns normally has committed exactly once and rolled back
\* never, and the commit came after the last record of the file had been taken
\* up; so it is for files whose records are skipped and for files with no
\* record, no tag or an unknown tag.
C7_NormalReturnCommitsOnce ==
  (pc = "returned" /\ last.op = "json" /\ ~last.raised) =>
    /\ last.commits = 1
    /\ last.rollbacks = 0
    /\ last.commit_at = Len(last.log)
    /\ Kind(last.data) \in RecordKinds => Len(last.log) = Len(last.data.items)

\* A call has returned normally from a file of which one record was stored and
\* another skipped.
C7_Witness ==
  /\ pc = "returned" /\ ~last.raised /\ last.commits = 1
  /\ \E i, j \in Logged : last.log[i].out = "skipped" /\ last.log[j].out = "imported"

\* ------------------------------------------------------------------------ C8
\* C8: an exception raised while one record is processed stays with that
\* record: when the processing of some record of a file has raised, the call
\* still returns normally, every record of the file has been taken up, and the
\* count is the number of records processed without an exception or a skip.
C8_RecordFailureStaysInRecord ==
  (/\ pc = "returned" /\ Kind(last.data) \in RecordKinds
   /\ \E i \in Logged : last.log[i].out \in {"failed", "raised"}) =>
    /\ ~last.raised
    /\ Len(last.log) = Len(last.data.items)
    /\ last.count = Cardinality({i \in Logged : last.log[i].out = "imported"})

\* ------------------------------------------------------------------------ C9
\* The record lacks a field its importer requires, or names a Match,
\* MatchTeam or MatchParticipant its importer requires and store st lacks.
MissingFieldOrReference(st, r) ==
  IF r.type = "F.MatchJSON" THEN Falsy(r.matchid)
  ELSE IF r.type = "F.MatchresultatJSON"
    THEN Falsy(r.matchid) \/ Falsy(r.matchresultattypid) \/ MatchesNamed(st, r) = {}
  ELSE IF r.type = "F.MatchhandelseJSON"
    THEN \/ Falsy(r.matchid) \/ Falsy(r.matchhandelsetypid)
         \/ Falsy(r.matchdeltagareid) \/ Falsy(r.matchlagid)
         \/ MatchesNamed(st, r) = {}
         \/ LacksParticipantOrTeam(st, r)
  ELSE \/ Falsy(r.matchid) \/ Falsy(r.matchlagid)
       \/ Falsy(r.spelareid) \/ Falsy(r.matchdeltagareid)
       \/ MatchesNamed(st, r) = {}
       \/ \A x \in st.match_teams : x.id # r.matchlagid

\* C9: a record that lacks a required field or a mandatory reference is
\* skipped: while it is processed no row of any table is created or changed,
\* nothing is raised, and it is not counted.
C9_SkippedRecordWritesNothing ==
  (pc = "returned" /\ Kind(last.data) \in RecordKinds) =>
    /\ \A i \in Logged :
         (last.data.items[i].isMap
            /\ MissingFieldOrReference(last.prev, last.data.items[i])) =>
           /\ last.log[i].out = "skipped"
           /\ last.log[i].leaf = "none"
           /\ ~last.log[i].changed
    /\ ~last.raised =>
         last.count <= Cardinality({i \in Logged :
                          last.data.items[i].isMap =>
                            ~MissingFieldOrReference(last.prev, last.data.items[i])})

\* An events file has been imported whose record, all ids present, names a
\* match the store lacks; no EventType exists afterwards.
C9_Witness ==
  /\ pc = "returned" /\ ~last.raised /\ Kind(last.data) = "F.MatchhandelseJSON"
  /\ \E i \in CompleteEvents :
       /\ MatchesNamed(last.prev, last.data.items[i]) = {}
       /\ last.log[i].out = "skipped"
  /\ store.matches # {}
  /\ store.event_types = {}
  /\ store = last.prev

\* ----------------------------------------------------------------------- C10
\* C10: the count a call returns is the number of records whose leaf row the
\* call created or updated, and lies between 0 and the number of records.
C10_CountIsLeafRowsWritten ==
  (pc = "returned" /\ ~last.raised /\ Kind(last.data) \in RecordKinds) =>
    /\ last.count = Cardinality({i \in Logged : last.log[i].leaf # "none"})
    /\ 0 <= last.count /\ last.count <= Len(last.data.items)

\* ----------------------------------------------------------------------- C11
\* C11 as stated: when a file is imported twice in succession, the count the
\* second import returns is the number of records of the file.
C11_SecondCountIsNumberOfRecords ==
  (pc = "returned" /\ last.again /\ ~last.raised /\ Kind(last.data) \in RecordKinds) =>
    last.count = Len(last.data.items)

\* C11 amended: the second import returns what the first returned, the number
\* of records it imported; that is the number of records of the file exactly
\* when no record of it is skipped or fails.
C11_SecondCountIsFirstCount ==
  (pc = "returned" /\ last.again /\ Kind(last.data) \in RecordKinds) =>
    /\ last.raised <=> last.first = NULL
    /\ ~last.raised =>
         /\ last.count = last.first
         /\ last.count = Len(last.data.items)
              <=> \A i \in Records : last.log[i].out = "imported"

\* A file has been imported twice of which one record was stored and updated
\* and another skipped or failed.
C11_Witness ==
  /\ pc = "returned" /\ last.again /\ ~last.raised /\ Kind(last.data) \in RecordKinds
  /\ last.count = last.first
  /\ 0 < last.count /\ last.count < Len(last.data.items)
  /\ \E i \in Logged : last.log[i].leaf = "updated"

\* ----------------------------------------------------------------------- C12
\* C12: when the with statement has been left, the session has been closed
\* exactly once, whether or not an exception left the body and whether or not
\* the rollback of the error path succeeded; and when an exception left the
\* body, a rollback was issued before the close.
C12_ScopeExitClosesOnce ==
  pc = "exited" =>
    /\ Cardinality({i \in DOMAIN exit.trace : exit.trace[i] = "close"}) = 1
    /\ exit.exc =>
         \E i, j \in DOMAIN exit.trace :
           i < j /\ exit.trace[i] = "rollback" /\ exit.trace[j] = "close"

\* ----------------------------------------------------------------------- C13
\* The value the rule "0 means unset" gives for source value x.
ZeroIsNull(x) == IF x = 0 THEN NULL ELSE x

\* Record i of the returned call was imported and no later record of the call
\* was imported under the same value of the id field.
LastImported(i, field) ==
  /\ last.log[i].out = "imported"
  /\ \A j \in Logged :
       (j > i /\ last.log[j].out = "imported") =>
         last.data.items[j][field] # last.data.items[i][field]

\* C13: the substitution minutes stored for a MatchParticipant record and the
\* related-event reference stored for a MatchEvent record are null when the
\* source value is 0 and the source value otherwise, whether the row was
\* created or updated; no stored row holds 0 in these columns.
C13_SentinelZeroIsNull ==
  /\ \A x \in store.match_participants :
       x.substitution_in_minute # 0 /\ x.substitution_out_minute # 0
  /\ \A x \in store.match_events : x.related_event_id # 0
  /\ (pc = "returned" /\ ~last.raised /\ Kind(last.data) = "F.MatchdeltagareJSON") =>
       \A i \in Logged :
         LastImported(i, "matchdeltagareid") =>
           \E x \in store.match_participants :
             /\ x.id = last.data.items[i].matchdeltagareid
             /\ x.substitution_in_minute = ZeroIsNull(last.data.items[i].byte1)
             /\ x.substitution_out_minute = ZeroIsNull(last.data.items[i].byte2)
  /\ (pc = "returned" /\ ~last.raised /\ Kind(last.data) = "F.MatchhandelseJSON") =>
       \A i \in Logged :
         (last.log[i].out = "imported" /\ ~Falsy(last.data.items[i].matchhandelseid)
            /\ LastImported(i, "matchhandelseid")) =>
           \E x \in store.match_events :
             /\ x.id = last.data.items[i].matchhandelseid
             /\ x.related_event_id =
                  ZeroIsNull(last.data.items[i].relateradTillMatchhandelseID)

\* A participant record with byte1 = 0 and byte2 = 75 has updated its row, which
\* holds null and 75.
C13_Witness ==
  /\ pc = "returned" /\ ~last.raised /\ Kind(last.data) = "F.MatchdeltagareJSON"
  /\ \E i \in Logged :
       /\ last.log[i].out = "imported" /\ last.log[i].leaf = "updated"
       /\ last.data.items[i].byte1 = 0 /\ last.data.items[i].byte2 = 75
       /\ \E x \in store.match_participants :
            /\ x.id = last.data.items[i].matchdeltagareid
            /\ x.substitution_in_minute = NULL /\ x.substitution_out_minute = 75

\* ----------------------------------------------------------------------- C14
\* The display name of record r contains one of the words (case-insensitively).
NameHasWord(r, words) ==
  \E w \in words : Contains(Lower(EventTypeText(r.matchhandelsetypnamn)), w)

\* Record i of the returned events call is the one that created its event type:
\* it was imported, the type was not stored before the call, and no earlier
\* imported record of the call names the same type.
CreatedEventType(i) ==
  /\ last.log[i].out = "imported"
  /\ \A x \in last.prev.event_types : x.id # last.data.items[i].matchhandelsetypid
  /\ \A j \in Logged :
       (j < i /\ last.log[j].out = "imported") =>
         last.data.items[j].matchhandelsetypid # last.data.items[i].matchhandelsetypid

\* C14: the EventType row created for an event record carries the record's
\* display name, is_goal / is_penalty / is_card / is_substitution are true exactly
\* when that name contains goal or mal / penalty or straff / card or kort /
\* substitution or byte (case-insensitively), and affects_score is the record's.
C14_EventTypeCarriesRecordName ==
  (pc = "returned" /\ ~last.raised /\ Kind(last.data) = "F.MatchhandelseJSON") =>
    \A i \in Logged :
      CreatedEventType(i) =>
        \E x \in store.event_types :
          /\ x.id = last.data.items[i].matchhandelsetypid
          /\ x.name = last.data.items[i].matchhandelsetypnamn
          /\ x.is_goal <=> NameHasWord(last.data.items[i],
                             {<<"g", "o", "a", "l">>, <<"m", "a*", "l">>})
          /\ x.is_penalty <=> NameHasWord(last.data.items[i],
                                {<<"p", "e", "n", "a", "l", "t", "y">>,
                                 <<"s", "t", "r", "a", "f", "f">>})
          /\ x.is_card <=> NameHasWord(last.data.items[i],
                             {<<"c", "a", "r", "d">>, <<"k", "o", "r", "t">>})
          /\ x.is_substitution <=> NameHasWord(last.data.items[i],
                 {<<"s", "u", "b", "s", "t", "i", "t", "u", "t", "i", "o", "n">>,
                  <<"b", "y", "t", "e">>})
          /\ x.affects_score = last.data.items[i].affects

\* ----------------------------------------------------------------------- C15
LookupTables == {"event_types", "result_types", "referee_roles"}

\* C15: every EventType, ResultType and RefereeRole row stored before an import
\* call is stored unchanged after it: no later import changes a field of such a
\* row or deletes it.
C15_LookupRowsAreNeverChanged ==
  pc = "returned" => \A t \in LookupTables : last.prev[t] \subseteq store[t]

\* An imported result record names a result type that was stored before the
\* call under another name than the record carries.
C15_Witness ==
  /\ pc = "returned" /\ ~last.raised /\ Kind(last.data) = "F.MatchresultatJSON"
  /\ \E i \in Logged :
       /\ last.log[i].out = "imported"
       /\ \E x \in last.prev.result_types :
            /\ x.id = last.data.items[i].matchresultattypid
            /\ x.name # ResultTypeName(last.data.items[i].namn)
            /\ x \in store.result_types

\* ----------------------------------------------------------------------- C16
\* The type marker of element x: "" when x has none.
TagOf(x) == IF x.isMap /\ x.type # "#absent" THEN x.type ELSE ""

\* C16: _determine_data_type maps a non-empty list to (type marker of its
\* first element, the list unchanged), a single mapping to (its type marker, the
\* list of that one mapping), uses "" as the type when the marker is missing
\* while still returning the records, and maps a scalar or an empty list to
\* ("", []); only the first element of a list is looked at.
C16_DataTypeFromFirstElement ==
  (pc = "returned" /\ last.op = "json") =>
    /\ ~DetermineDataType(last.data).raises
    /\ IF last.data.shape = "list" /\ last.data.items # <<>>
         THEN /\ DetermineDataType(last.data).data_type = TagOf(last.data.items[1])
              /\ DetermineDataType(last.data).normalized = last.data.items
       ELSE IF last.data.shape = "map"
         THEN /\ DetermineDataType(last.data).data_type = TagOf(last.data.items[1])
              /\ Len(DetermineDataType(last.data).normalized) = 1
              /\ DetermineDataType(last.data).normalized[1] = last.data.items[1]
       ELSE /\ DetermineDataType(last.data).data_type = ""
            /\ DetermineDataType(last.data).normalized = <<>>

\* ----------------------------------------------------------------------- C17
\* C17: _determine_data_type raises no exception, whatever decoded JSON value
\* it is given.
C17_DetermineDataTypeNeverRaises ==
  (pc = "returned" /\ last.op = "json") =>
    ~DetermineDataType(last.data).raises

\* ----------------------------------------------------------------------- C18
\* C18: a call on a file whose type tag is empty or holds none of the four
\* known markers returns 0, raises nothing and leaves every table as it was.
C18_UnknownTypeImportsNothing ==
  (pc = "returned" /\ last.op = "json" /\ Kind(last.data) \notin RecordKinds) =>
    /\ ~last.raised
    /\ last.count = 0
    /\ store = last.prev

\* ----------------------------------------------------------------------- C19
\* Participant record r carries the four ids and names a Match and a MatchTeam
\* of store st.
CompleteParticipant(st, r) ==
  /\ r.isMap
  /\ ~Falsy(r.matchid) /\ ~Falsy(r.matchlagid)
  /\ ~Falsy(r.spelareid) /\ ~Falsy(r.matchdeltagareid)
  /\ \E m \in st.matches : m.fogis_id = Str(r.matchid)
  /\ \E x \in st.match_teams : x.id = r.matchlagid

\* C19: every MatchParticipant record that carries an external match id, a
\* match-team id, a player id and a participant id, and whose Match and
\* MatchTeam are stored, is imported and counted, and the stored participant
\* refers to the Person of the record's player id.
C19_CompleteParticipantIsImported ==
  (pc = "returned" /\ ~last.raised /\ Kind(last.data) = "F.MatchdeltagareJSON") =>
    \A i \in Logged :
      CompleteParticipant(last.prev, last.data.items[i]) =>
        /\ last.log[i].out = "imported"
        /\ LastImported(i, "matchdeltagareid") =>
             \E x \in store.match_participants :
               /\ x.id = last.data.items[i].matchdeltagareid
               /\ x.player_id = last.data.items[i].spelareid
               /\ \E q \in store.persons : q.id = x.player_id

\* ----------------------------------------------------------------------- C20
\* The number of data rows among the lines of a CSV file.
DataRows(lines) == Cardinality({i \in DOMAIN lines : lines[i] = "row"})

\* C20: import_from_csv returns the number of data rows of the file and leaves
\* the store as it was: no row is added, changed or deleted, and the session is
\* neither committed nor rolled back.
C20_CsvCountsRowsAndKeepsStore ==
  (pc = "returned" /\ last.op = "csv") =>
    /\ ~last.raised
    /\ last.count = DataRows(last.data.lines)
    /\ store = last.prev
    /\ last.commits = 0 /\ last.rollbacks = 0

\* A CSV file with a header and two rows was imported into a store that holds
\* a match.
C20_Witness ==
  /\ pc = "returned" /\ last.op = "csv"
  /\ Len(last.data.lines) = 3 /\ last.count = 2
  /\ store.matches # {} /\ store = last.prev

\* ----------------------------------------------------------------------- C21
\* What match record r carries: a venue, a competition, the team of one side.
CarriesVenue(r) == ~Falsy(r.anlaggningid) /\ VenueName(r.namn) # ""
CarriesCompetition(r) == ~Falsy(r.tavlingid) /\ CompetitionName(r.namn) # ""
TeamIdOf(r, is_home) == IF is_home THEN r.lag1lagid ELSE r.lag2lagid
ClubIdOf(r, is_home) == IF is_home THEN r.lag1foreningid ELSE r.lag2foreningid
CarriesTeam(r, is_home) ==
  /\ ~Falsy(TeamIdOf(r, is_home)) /\ ~Falsy(ClubIdOf(r, is_home))
  /\ TeamName(TeamIdOf(r, is_home), r.namn) # <<>>

\* C21: a file of match records is imported without an error, and a record with
\* a nonempty match id (a date that is a string, referee assignments that are a
\* list) is imported and counted also when its venue, its competition or a team is
\* missing: the Match row then has a null venue reference, a null competition
\* reference, or, when the record created the match, no MatchTeam row for the
\* side that is missing; and no Club row is created for a missing team.
C21_MatchImportedWithoutOptionalData ==
  (pc = "returned" /\ last.op = "json" /\ Kind(last.data) = "F.MatchJSON") =>
    /\ ~last.raised
    /\ \A i \in Logged :
         (last.data.items[i].isMap /\ ~Falsy(last.data.items[i].matchid)
            /\ ~ParseDateRaises(last.data.items[i].speldatum)
            /\ last.data.items[i].domaruppdraglista.kind # "number") =>
           /\ last.log[i].out = "imported"
           /\ LastImported(i, "matchid") =>
                \E m \in store.matches :
                  /\ m.fogis_id = Str(last.data.items[i].matchid)
                  /\ m.venue_id = IF CarriesVenue(last.data.items[i])
                                    THEN last.data.items[i].anlaggningid ELSE NULL
                  /\ m.competition_id = IF CarriesCompetition(last.data.items[i])
                                          THEN last.data.items[i].tavlingid ELSE NULL
                  /\ \A is_home \in BOOLEAN :
                       (last.log[i].leaf = "created"
                          /\ ~CarriesTeam(last.data.items[i], is_home)) =>
                         \A x \in store.match_teams :
                           x.match_id = m.id => x.is_home_team # is_home
    /\ \A c \in store.clubs \ last.prev.clubs :
         \E i \in Logged, is_home \in BOOLEAN :
           /\ last.data.items[i].isMap
           /\ CarriesTeam(last.data.items[i], is_home)
           /\ c.id = ClubIdOf(last.data.items[i], is_home)

\* ----------------------------------------------------------------------- C22
\* C22: in a call that returns, a match record with a match id whose date is a
\* string that does not parse as YYYY-MM-DD (or whose date key is absent) is not
\* skipped: it is counted as imported and its Match row, created or updated,
\* carries the current date.
C22_UnparsedDateBecomesNow ==
  (pc = "returned" /\ ~last.raised /\ Kind(last.data) = "F.MatchJSON") =>
    \A i \in Logged :
      (last.data.items[i].isMap /\ ~Falsy(last.data.items[i].matchid)
         /\ last.data.items[i].speldatum = "bad") =>
        /\ last.log[i].out = "imported"
        /\ last.log[i].leaf \in {"created", "updated"}
        /\ LastImported(i, "matchid") =>
             \E m \in store.matches :
               m.fogis_id = Str(last.data.items[i].matchid) /\ m.date = "now"

\* A record with an unparsed date has updated a Match that was stored with the
\* date of an earlier record.
C22_Witness ==
  /\ pc = "returned" /\ ~last.raised /\ Kind(last.data) = "F.MatchJSON"
  /\ \E i \in Logged :
       /\ last.data.items[i].speldatum = "bad"
       /\ last.log[i].out = "imported" /\ last.log[i].leaf = "updated"
       /\ LastImported(i, "matchid")
       /\ \E m \in last.prev.matches :
            m.fogis_id = Str(last.data.items[i].matchid) /\ m.date = "2025-04-11"
       /\ \E m \in store.matches :
            m.fogis_id = Str(last.data.items[i].matchid) /\ m.date = "now"

\* ----------------------------------------------------------------------- C23
\* Table tab of the store holds exactly one row with primary key id, and that
\* row satisfies Is.
TheRow(tab, id, Is(_)) ==
  /\ Cardinality({x \in store[tab] : x.id = id}) = 1
  /\ \A x \in store[tab] : x.id = id => Is(x)

\* The rows of the team of one side of match record r carry what r carries.
TeamUpToDate(r, is_home) ==
  LET IsTeam(x) == x.name = TeamName(TeamIdOf(r, is_home), r.namn)
                   /\ x.club_id = ClubIdOf(r, is_home)
      IsClub(x) == x.name = TeamName(TeamIdOf(r, is_home), r.namn)[1]
  IN CarriesTeam(r, is_home) =>
       /\ TheRow("teams", TeamIdOf(r, is_home), IsTeam)
       /\ TheRow("clubs", ClubIdOf(r, is_home), IsClub)

\* The Person and Referee rows of referee assignment a carry what a carries.
RefereeUpToDate(a) ==
  LET IsPerson(x) == x.first_name = SplitFirst(PersonName(a.namn))
                     /\ x.last_name = SplitLast(PersonName(a.namn))
      IsReferee(x) == x.person_id = a.personid
  IN /\ TheRow("persons", a.personid, IsPerson)
     /\ TheRow("referees", a.domareid, IsReferee)

\* C23: when the last record of a match file has been imported, each Venue,
\* Competition, CompetitionCategory, Team, Club, Person and Referee it names is
\* stored once under its external key and carries the name and the other
\* fields of that record, also when the row was stored before with others.
C23_ResolvedRowsCarryTheRecord ==
  (pc = "returned" /\ ~last.raised /\ Kind(last.data) = "F.MatchJSON"
     /\ last.log # <<>> /\ last.log[Len(last.log)].out = "imported") =>
    LET r == last.data.items[Len(last.log)]
        IsVenue(x) == x.name = VenueName(r.namn)
        IsCompetition(x) == x.name = CompetitionName(r.namn)
                            /\ x.category_id = r.tavlingskategoriid
        IsCategory(x) == x.name = CategoryName(r.namn)
    IN /\ CarriesVenue(r) => TheRow("venues", r.anlaggningid, IsVenue)
       /\ TheRow("competitions", r.tavlingid, IsCompetition)
       /\ TheRow("competition_categories", r.tavlingskategoriid, IsCategory)
       /\ TeamUpToDate(r, TRUE) /\ TeamUpToDate(r, FALSE)
       /\ \A k \in DOMAIN r.domaruppdraglista.items :
            RefereeUpToDate(r.domaruppdraglista.items[k])

\* ----------------------------------------------------------------------- C24
\* The table of the leaf rows of a file kind, and the field of a record of that
\* kind that holds the external id of its leaf row.
LeafTable(kind) ==
  IF kind = "F.MatchJSON" THEN "matches"
  ELSE IF kind = "F.MatchresultatJSON" THEN "match_results"
  ELSE IF kind = "F.MatchhandelseJSON" THEN "match_events"
  ELSE "match_participants"
ExternalIdField(kind) ==
  IF kind = "F.MatchJSON" THEN "matchid"
  ELSE IF kind = "F.MatchresultatJSON" THEN "matchresultatid"
  ELSE IF kind = "F.MatchhandelseJSON" THEN "matchhandelseid"
  ELSE "matchdeltagareid"

\* Row x was added to table tab by the returned call under a key the store
\* generated, and holds external id ext as its fogis_id.
StoreKeyed(tab, x, ext) ==
  /\ x.id = NextId(last.prev[tab])
  /\ x.fogis_id = IF Falsy(ext) THEN NONE ELSE Str(ext)

\* C24: the Match, MatchResult, MatchEvent or MatchParticipant row that the one
\* record of a file created, and the Person row created with a participant,
\* have a primary key generated by the store and hold the record's external id
\* as fogis_id.
C24_CreatedRowsGetGeneratedKeys ==
  (pc = "returned" /\ ~last.raised /\ Kind(last.data) \in RecordKinds
     /\ Len(last.data.items) = 1 /\ last.log[1].out = "imported"
     /\ last.log[1].leaf = "created") =>
    /\ \A x \in store[LeafTable(Kind(last.data))] \ last.prev[LeafTable(Kind(last.data))] :
         StoreKeyed(LeafTable(Kind(last.data)), x,
                    last.data.items[1][ExternalIdField(Kind(last.data))])
    /\ Kind(last.data) = "F.MatchdeltagareJSON" =>
         \A x \in store.persons \ last.prev.persons :
           StoreKeyed("persons", x, last.data.items[1].personid)

\* ----------------------------------------------------------------------- C25
\* C25: after any sequence of result imports the store holds at most one
\* MatchResult row per (match, result type) pair, and a result record creates a
\* row only when neither its result id nor its pair names a stored row: a call
\* keeps every stored row under its key and its pair and adds exactly one row
\* per record whose row was created.
C25_OneResultPerMatchAndType ==
  /\ \A x, y \in store.match_results :
       (x.match_id = y.match_id /\ x.result_type_id = y.result_type_id) => x = y
  /\ (pc = "returned" /\ ~last.raised /\ Kind(last.data) = "F.MatchresultatJSON") =>
       /\ \A x \in last.prev.match_results :
            \E y \in store.match_results :
              /\ y.id = x.id
              /\ y.match_id = x.match_id /\ y.result_type_id = x.result_type_id
       /\ Cardinality(store.match_results) =
            Cardinality(last.prev.match_results)
              + Cardinality({i \in Logged : last.log[i].leaf = "created"})

\* A record with a result id that no row has was imported for a pair that has a
\* row: the row of the pair was updated and the table did not grow.
C25_Witness ==
  /\ pc = "returned" /\ ~last.raised /\ Kind(last.data) = "F.MatchresultatJSON"
  /\ Len(last.data.items) = 1
  /\ ~Falsy(last.data.items[1].matchresultatid)
  /\ \A x \in last.prev.match_results : x.id # last.data.items[1].matchresultatid
  /\ last.log[1].out = "imported" /\ last.log[1].leaf = "updated"
  /\ Cardinality(store.match_results) = Cardinality(last.prev.match_results)
  /\ Cardinality(store.match_results) = 2

\* ----------------------------------------------------------------------- C26
\* The rows of st that carry external id ext, for a file of the given kind.
RowsOf(st, kind, ext) ==
  IF kind = "F.MatchJSON" THEN {x \in st.matches : x.fogis_id = Str(ext)}
  ELSE {x \in st[LeafTable(kind)] : x.id = ext}

\* The external id of record i of the returned call; NULL when it has none.
ExternalId(i) ==
  IF last.data.items[i].isMap
    THEN last.data.items[i][ExternalIdField(Kind(last.data))] ELSE NULL

\* The file that holds record r alone.
FileOf(r) == [shape |-> "list", items |-> <<r>>]

\* C26: within one call the row created for an earlier record is found when a
\* later record of the file names the same external id: the later record updates
\* it, the store holds exactly one row for the id, and a file that holds twice a
\* record which alone is imported without error is imported without error with
\* both records counted.
C26_LaterRecordFindsEarlierRow ==
  (pc = "returned" /\ last.op = "json" /\ Kind(last.data) \in RecordKinds) =>
    /\ ~last.raised =>
         \A i \in Logged :
           (last.log[i].out = "imported" /\ ~Falsy(ExternalId(i))) =>
             /\ Cardinality(RowsOf(store, Kind(last.data), ExternalId(i))) = 1
             /\ \A j \in Logged :
                  (i < j /\ last.log[j].out = "imported"
                     /\ ExternalId(j) = ExternalId(i)) => last.log[j].leaf = "updated"
    /\ (/\ Len(last.data.items) = 2 /\ last.data.items[1] = last.data.items[2]
        /\ ~ImportFromJson(last.prev, FileOf(last.data.items[1])).raised
        /\ ImportFromJson(last.prev, FileOf(last.data.items[1])).count = 1) =>
         /\ ~last.raised
         /\ last.count = 2
         /\ last.commits = 1

\* A result file held the same new result id twice: the first record created the
\* row, the second updated it, both were counted.
C26_Witness ==
  /\ pc = "returned" /\ ~last.raised /\ Kind(last.data) = "F.MatchresultatJSON"
  /\ Len(last.data.items) = 2 /\ last.count = 2
  /\ ~Falsy(last.data.items[1].matchresultatid)
  /\ last.data.items[1].matchresultatid = last.data.items[2].matchresultatid
  /\ RowsOf(last.prev, Kind(last.data), last.data.items[1].matchresultatid) = {}
  /\ last.log[1].leaf = "created" /\ last.log[2].leaf = "updated"
  /\ Cardinality(RowsOf(store, Kind(last.data), last.data.items[1].matchresultatid)) = 1

\* ----------------------------------------------------------------------- C27
\* The goals a result record carries: 0 where it carries none.
GoalsOf(g) == IF g = NULL THEN 0 ELSE g

\* C27: when the last record of a result file has been counted as imported,
\* the store holds a MatchResult row that refers to the Match and the ResultType
\* the record names and holds the record's goals, also when the row was found
\* through the record's result id and belonged to another match.
C27_ImportedResultIsStoredForItsMatch ==
  (pc = "returned" /\ ~last.raised /\ Kind(last.data) = "F.MatchresultatJSON"
     /\ last.log # <<>> /\ last.log[Len(last.log)].out = "imported") =>
    \E x \in store.match_results, m \in store.matches :
      /\ m.fogis_id = Str(last.data.items[Len(last.log)].matchid)
      /\ x.match_id = m.id
      /\ x.result_type_id = last.data.items[Len(last.log)].matchresultattypid
      /\ x.home_goals = GoalsOf(last.data.items[Len(last.log)].matchlag1mal)
      /\ x.away_goals = GoalsOf(last.data.items[Len(last.log)].matchlag2mal)

\* ----------------------------------------------------------------------- C28
\* C28: in every reachable state the MatchTeam a stored MatchParticipant refers
\* to belongs to the participant's Match, and the MatchParticipant and the
\* MatchTeam a stored MatchEvent refers to belong to the event's Match.
C28_ReferencesStayWithinTheMatch ==
  /\ \A p \in store.match_participants :
       \A mt \in store.match_teams : mt.id = p.match_team_id => mt.match_id = p.match_id
  /\ \A e \in store.match_events :
       /\ \A mt \in store.match_teams :
            mt.id = e.match_team_id => mt.match_id = e.match_id
       /\ \A p \in store.match_participants :
            p.id = e.participant_id => p.match_id = e.match_id

\* ----------------------------------------------------------------------- C29
\* C29: after any sequence of match imports every Match has at most one
\* MatchTeam row flagged as home team and at most one flagged as away team.
C29_OneHomeAndOneAwayTeam ==
  \A m \in store.matches :
    \A is_home \in BOOLEAN :
      Cardinality({mt \in store.match_teams :
                     mt.match_id = m.id /\ mt.is_home_team = is_home}) <= 1

\* ----------------------------------------------------------------------- C30
\* C30: a record whose processing raises inside the per-record handler leaves
\* no trace in the committed store: after a call that returns and in which every
\* record failed that way, the store is what it was before the call.
C30_FailedRecordLeavesNoTrace ==
  (pc = "returned" /\ ~last.raised /\ Kind(last.data) \in RecordKinds
     /\ last.log # <<>> /\ \A i \in Logged : last.log[i].out = "failed") =>
    store = last.prev

====
